---- MODULE Spec2Model ----
(***************************************************************************)
(* VulkanEngine/main.cpp: the HelloTriangleApplication lifecycle           *)
(* (initWindow, initVulkan/createInstance, mainLoop, cleanup), the         *)
(* validation-layer check, the extension diagnostic and main's handler.    *)
(*                                                                         *)
(* The windowing library (GLFW) and the graphics runtime (Vulkan loader)   *)
(* are the environment: what is installed is fixed in Init, and what each  *)
(* call returns is chosen where the call is made.                          *)
(***************************************************************************)
EXTENDS Integers, Sequences, FiniteSets, TLC

(***************************************************************************)
(* Bounds of the model.                                                    *)
(***************************************************************************)
\* longest list of layers the runtime reports
MaxLayers == 2
\* longest list of instance extensions the runtime reports
MaxExtensions == 2
\* longest list of extensions the windowing layer requires
MaxNeeded == 2
\* most event pumps followed in one run
MaxPolls == 2

(***************************************************************************)
(* Names are C strings: sequences of non-zero character codes, the         *)
(* terminating NUL left implicit.  The codes stand for fragments of the    *)
(* real names, so that one name can be a proper prefix of another.         *)
(***************************************************************************)
\* "VK_LAYER_KHRONOS_validation"
VK_LAYER_KHRONOS_validation == <<1, 2>>
\* a layer whose name is a proper prefix of the one above
VK_LAYER_KHRONOS == <<1>>
\* "VK_KHR_surface"
VK_KHR_surface == <<3, 4>>
\* "VK_KHR_surface_protected_capabilities": VK_KHR_surface is a prefix of it
VK_KHR_surface_protected_capabilities == <<3, 4, 5>>
\* "VK_EXT_debug_utils"
VK_EXT_debug_utils == <<6>>

LayerNames == {VK_LAYER_KHRONOS_validation, VK_LAYER_KHRONOS}
ExtensionNames ==
    {VK_KHR_surface, VK_KHR_surface_protected_capabilities, VK_EXT_debug_utils}

Range(s) == {s[i] : i \in DOMAIN s}

\* the duplicate-free lists of at most n elements of S
ListsUpTo(S, n) ==
    UNION {{s \in [1..k -> S] : \A i, j \in 1..k : s[i] = s[j] => i = j} :
           k \in 0..n}

\* const std::vector<const char*> validationLayers
validationLayers == <<VK_LAYER_KHRONOS_validation>>

(***************************************************************************)
(* strcmp: the sign of the first differing character, 0 when the strings   *)
(* are equal.  The character after the last one is the terminating NUL.    *)
(***************************************************************************)
CharAt(s, i) == IF i <= Len(s) THEN s[i] ELSE 0

RECURSIVE strcmpFrom(_, _, _)
strcmpFrom(a, b, i) ==
    IF CharAt(a, i) # CharAt(b, i)
    THEN (IF CharAt(a, i) < CharAt(b, i) THEN -1 ELSE 1)
    ELSE IF CharAt(a, i) = 0 THEN 0 ELSE strcmpFrom(a, b, i + 1)

strcmp(a, b) == strcmpFrom(a, b, 1)

\* a C condition `if (n)`: true for every non-zero n
Truthy(n) == n # 0

(***************************************************************************)
(* checkValidationLayerSupport (main.cpp 27-49).  availableLayers is the   *)
(* list vkEnumerateInstanceLayerProperties filled in.                      *)
(***************************************************************************)
\* the inner loop, from availableLayers[j] on: the value layerFound ends with
RECURSIVE layerFoundFrom(_, _, _)
layerFoundFrom(layerName, availableLayers, j) ==
    IF j > Len(availableLayers)
    THEN FALSE
    ELSE IF Truthy(strcmp(layerName, availableLayers[j].layerName))
         THEN TRUE
         ELSE layerFoundFrom(layerName, availableLayers, j + 1)

\* the outer loop, from validationLayers[i] on: the value returned
RECURSIVE checkLayersFrom(_, _)
checkLayersFrom(availableLayers, i) ==
    IF i > Len(validationLayers)
    THEN TRUE
    ELSE IF ~layerFoundFrom(validationLayers[i], availableLayers, 1)
         THEN FALSE
         ELSE checkLayersFrom(availableLayers, i + 1)

checkValidationLayerSupport(availableLayers) ==
    checkLayersFrom(availableLayers, 1)

(***************************************************************************)
(* hasExensions (main.cpp 78-99): the lines it writes to std::cout.  A     *)
(* line is [text, name]: the fixed text and the extension it is about.     *)
(***************************************************************************)
Line(text, name) == [text |-> text, name |-> name]

\* int16_t neededExtensionsCount, converted from the uint32_t count
ToInt16(n) ==
    LET m == n % 65536
    IN  IF m >= 32768 THEN m - 65536 ELSE m

\* the first loop: one line per available extension, from index j on
RECURSIVE availableLinesFrom(_, _)
availableLinesFrom(availableExtensions, j) ==
    IF j > Len(availableExtensions)
    THEN <<>>
    ELSE <<Line("AVAILABLE", availableExtensions[j].extensionName)>>
         \o availableLinesFrom(availableExtensions, j + 1)

\* a mutant of matchLoop: foundMatch is not set when the line is written
matchLoop_flagNotSet(neededExtension, availableExtensions, j, st) ==
    IF \E k \in j..Len(availableExtensions) :
           Truthy(strcmp(neededExtension, availableExtensions[k].extensionName))
    THEN [out |-> Append(st.out, Line("FOUND", neededExtension)),
          foundMatch |-> st.foundMatch]
    ELSE st

\* the inner loop over availableExtensions, from index j on; st is
\* [out, foundMatch]: the lines written so far and the flag
RECURSIVE matchLoop(_, _, _, _)
matchLoop(neededExtension, availableExtensions, j, st) ==
    IF j > Len(availableExtensions)
    THEN st
    ELSE IF Truthy(strcmp(neededExtension,
                          availableExtensions[j].extensionName))
         THEN [out |-> Append(st.out, Line("FOUND", neededExtension)),
               foundMatch |-> TRUE]
         ELSE matchLoop(neededExtension, availableExtensions, j + 1, st)

\* the second loop, from neededExtensions[i + 1] on (i counts from 0)
RECURSIVE neededLinesFrom(_, _, _, _)
neededLinesFrom(availableExtensions, neededExtensions, neededExtensionsCount, i) ==
    IF ~(i < neededExtensionsCount)
    THEN <<>>
    ELSE LET neededExtension == neededExtensions[i + 1]
             r == matchLoop(neededExtension, availableExtensions, 1,
                            [out |-> <<>>, foundMatch |-> FALSE])
             lines == IF ~r.foundMatch
                      THEN Append(r.out, Line("NOT FOUND", neededExtension))
                      ELSE r.out
         IN  lines \o neededLinesFrom(availableExtensions, neededExtensions,
                                      neededExtensionsCount, i + 1)

hasExensions(availableExtensions, neededExtensions, neededExtensionsCount) ==
    <<Line("Available extensions:", <<>>)>>
    \o availableLinesFrom(availableExtensions, 1)
    \o <<Line("Needed extensions:", <<>>)>>
    \o neededLinesFrom(availableExtensions, neededExtensions,
                       neededExtensionsCount, 0)

(***************************************************************************)
(* The state.                                                              *)
(***************************************************************************)
VARIABLES
    enableValidationLayers, \* the build's flag: FALSE under NDEBUG
    installedLayers,        \* what vkEnumerateInstanceLayerProperties reports
    installedExtensions,    \* what vkEnumerateInstanceExtensionProperties reports
    platformExtensions,     \* what the windowing layer needs on this platform
    pc,                     \* where main is
    glfwInitialized,        \* the windowing subsystem is up
    window,                 \* the member GLFWwindow* window
    closeFlag,              \* the window's close-request flag
    instance,               \* the member VkInstance instance
    layerSupport,           \* what each checkValidationLayerSupport call returned
    createInfo,             \* each descriptor given to vkCreateInstance
    createStatus,           \* what vkCreateInstance returned
    calls,                  \* the collaborator calls made, in order
    cout,                   \* the lines written to std::cout
    cerr,                   \* the lines written to std::cerr
    exception,              \* the exception in flight
    exitStatus              \* what the process ended with

env == <<enableValidationLayers, installedLayers, installedExtensions,
         platformExtensions>>

vars == <<enableValidationLayers, installedLayers, installedExtensions,
          platformExtensions, pc, glfwInitialized, window, closeFlag,
          instance, layerSupport, createInfo, createStatus, calls, cout,
          cerr, exception, exitStatus>>

\* how often collaborator call f was made
Count(f) == Cardinality({i \in DOMAIN calls : calls[i] = f})

\* the positions at which collaborator call f was made
At(f) == {i \in DOMAIN calls : calls[i] = f}

Init ==
    /\ enableValidationLayers \in BOOLEAN
    /\ installedLayers \in
           {[i \in DOMAIN l |-> [layerName |-> l[i]]] :
            l \in ListsUpTo(LayerNames, MaxLayers)}
    /\ installedExtensions \in
           {[i \in DOMAIN l |-> [extensionName |-> l[i]]] :
            l \in ListsUpTo(ExtensionNames, MaxExtensions)}
    /\ platformExtensions \in ListsUpTo(ExtensionNames, MaxNeeded)
    /\ pc = "initWindow"
    /\ glfwInitialized = FALSE
    /\ window = "indeterminate"
    /\ closeFlag = FALSE
    /\ instance = "indeterminate"
    /\ layerSupport = <<>>
    /\ createInfo = <<>>
    /\ createStatus = "none"
    /\ calls = <<>>
    /\ cout = <<>>
    /\ cerr = <<>>
    /\ exception = "none"
    /\ exitStatus = "running"

(***************************************************************************)
(* initWindow (main.cpp 66-73).  Neither glfwInit's result nor the handle  *)
(* glfwCreateWindow returns is looked at.  Without the subsystem no window *)
(* can be created; with it, creation may still fail.                       *)
(***************************************************************************)
initWindow ==
    /\ pc = "initWindow"
    /\ \E initOk \in BOOLEAN, handle \in {"NULL", "WINDOW"} :
           /\ ~initOk => handle = "NULL"
           /\ glfwInitialized' = initOk
           /\ window' = handle
    /\ closeFlag' = FALSE
    /\ calls' = calls \o <<"glfwInit", "glfwWindowHint", "glfwWindowHint",
                           "glfwCreateWindow">>
    /\ pc' = "initVulkan"
    /\ UNCHANGED <<env, instance, layerSupport, createInfo, createStatus,
                   cout, cerr, exception, exitStatus>>

(***************************************************************************)
(* createInstance (main.cpp 106-153), which is all initVulkan does.        *)
(***************************************************************************)
\* glfwGetRequiredInstanceExtensions: NULL and a count of 0 when the
\* subsystem is not up, the platform's list otherwise
glfwGetRequiredInstanceExtensions ==
    IF glfwInitialized THEN platformExtensions ELSE <<>>

\* a mutant of createInfoFor: only the extensions the runtime reports are
\* put in the descriptor
createInfoFor_onlyAvailable(glfwExtensions, glfwExtensionCount) ==
    LET kept == SelectSeq(glfwExtensions,
                    LAMBDA n : \E j \in DOMAIN installedExtensions :
                                   installedExtensions[j].extensionName = n)
    IN  [enabledExtensionCount |-> Len(kept),
         ppEnabledExtensionNames |-> kept,
         enabledLayerCount |->
             IF enableValidationLayers THEN Len(validationLayers) ELSE 0,
         ppEnabledLayerNames |->
             IF enableValidationLayers THEN validationLayers ELSE <<>>]

\* a mutant of createInfoFor: only the validation layers the runtime reports
\* are enabled
createInfoFor_availableLayers(glfwExtensions, glfwExtensionCount) ==
    LET kept == SelectSeq(validationLayers,
                    LAMBDA n : \E j \in DOMAIN installedLayers :
                                   installedLayers[j].layerName = n)
    IN  [enabledExtensionCount |-> glfwExtensionCount,
         ppEnabledExtensionNames |-> glfwExtensions,
         enabledLayerCount |-> IF enableValidationLayers THEN Len(kept) ELSE 0,
         ppEnabledLayerNames |-> IF enableValidationLayers THEN kept ELSE <<>>]

\* the VkInstanceCreateInfo assembled at lines 122-140
createInfoFor(glfwExtensions, glfwExtensionCount) ==
    [enabledExtensionCount |-> glfwExtensionCount,
     ppEnabledExtensionNames |-> glfwExtensions,
     enabledLayerCount |->
         IF enableValidationLayers THEN Len(validationLayers) ELSE 0,
     ppEnabledLayerNames |->
         IF enableValidationLayers THEN validationLayers ELSE <<>>]

\* what vkCreateInstance may return for a descriptor: success only when
\* every extension and layer it names is installed
vkCreateInstance(info) ==
    LET extensionsPresent ==
            \A i \in 1..info.enabledExtensionCount :
                \E j \in DOMAIN installedExtensions :
                    installedExtensions[j].extensionName =
                        info.ppEnabledExtensionNames[i]
        layersPresent ==
            \A i \in 1..info.enabledLayerCount :
                \E j \in DOMAIN installedLayers :
                    installedLayers[j].layerName = info.ppEnabledLayerNames[i]
    IN  {"VK_ERROR_INCOMPATIBLE_DRIVER"}
        \cup (IF extensionsPresent THEN {} ELSE {"VK_ERROR_EXTENSION_NOT_PRESENT"})
        \cup (IF layersPresent THEN {} ELSE {"VK_ERROR_LAYER_NOT_PRESENT"})
        \cup (IF extensionsPresent /\ layersPresent THEN {"VK_SUCCESS"} ELSE {})

\* a mutant of creationFailed: the status is not looked at
creationFailed_ignored(status) == FALSE

\* the test at line 150
creationFailed(status) == status # "VK_SUCCESS"

\* the calls checkValidationLayerSupport makes (lines 29 and 32), made only
\* when enableValidationLayers lets line 107 call it
layerCheckCalls ==
    IF enableValidationLayers
    THEN <<"vkEnumerateInstanceLayerProperties",
           "vkEnumerateInstanceLayerProperties">>
    ELSE <<>>

\* a mutant of createInstanceCalls: the extensions are queried before the
\* layers are verified
createInstanceCalls_extensionsFirst ==
    <<"glfwGetRequiredInstanceExtensions",
      "vkEnumerateInstanceExtensionProperties",
      "vkEnumerateInstanceExtensionProperties">>
    \o layerCheckCalls
    \o <<"vkCreateInstance">>

\* the calls of a createInstance that gets past line 107, in order
createInstanceCalls ==
    layerCheckCalls
    \o <<"glfwGetRequiredInstanceExtensions",
         "vkEnumerateInstanceExtensionProperties",
         "vkEnumerateInstanceExtensionProperties",
         "vkCreateInstance">>

createInstance ==
    /\ pc = "initVulkan"
    /\ layerSupport' = IF enableValidationLayers
                       THEN Append(layerSupport,
                                   checkValidationLayerSupport(installedLayers))
                       ELSE layerSupport
    /\ IF enableValidationLayers
          /\ ~checkValidationLayerSupport(installedLayers)
       THEN /\ calls' = calls \o layerCheckCalls
            /\ exception' = "Validation layers requested, but not available!"
            /\ pc' = "catch"
            /\ UNCHANGED <<instance, createInfo, createStatus, cout>>
       ELSE LET glfwExtensions == glfwGetRequiredInstanceExtensions
                glfwExtensionCount == Len(glfwExtensions)
                info == createInfoFor(glfwExtensions, glfwExtensionCount)
            IN  /\ createInfo' = Append(createInfo, info)
                /\ cout' = cout \o hasExensions(installedExtensions,
                                                glfwExtensions,
                                                ToInt16(glfwExtensionCount))
                /\ calls' = calls \o createInstanceCalls
                /\ \E status \in vkCreateInstance(info) :
                       /\ createStatus' = status
                       /\ instance' = IF status = "VK_SUCCESS"
                                      THEN "INSTANCE" ELSE instance
                       /\ IF creationFailed(status)
                          THEN /\ exception' = "Failed to create instance!"
                               /\ pc' = "catch"
                          ELSE /\ exception' = exception
                               /\ pc' = "mainLoop"
    /\ UNCHANGED <<env, glfwInitialized, window, closeFlag, cerr, exitStatus>>

(***************************************************************************)
(* mainLoop (main.cpp 159-163): one evaluation of the loop condition and,  *)
(* when it lets the body run, the body.  glfwPollEvents is where a close   *)
(* request reaches the window's flag.  With no window, what                *)
(* glfwWindowShouldClose(NULL) does is undefined: the process may abort,   *)
(* or the call may return either value.                                    *)
(***************************************************************************)
\* a mutant of loopContinues: the `!` of the loop condition is left out
loopContinues_notNegated(answer) == answer = "true"

\* the loop condition !glfwWindowShouldClose(window), for an answer given
loopContinues(answer) == answer = "false"

\* a mutant of iterationCalls: the body pumps the events twice
iterationCalls_pollTwice ==
    <<"glfwWindowShouldClose", "glfwPollEvents", "glfwPollEvents">>

\* the calls of one iteration whose condition lets the body run
iterationCalls == <<"glfwWindowShouldClose", "glfwPollEvents">>

mainLoop ==
    /\ pc = "mainLoop"
    /\ \E answer \in IF window = "WINDOW"
                     THEN {IF closeFlag THEN "true" ELSE "false"}
                     ELSE {"true", "false", "abort"} :
           \/ /\ answer # "abort"
              /\ ~loopContinues(answer)
              /\ calls' = Append(calls, "glfwWindowShouldClose")
              /\ pc' = "cleanup"
              /\ UNCHANGED <<closeFlag, exitStatus>>
           \/ /\ answer # "abort"
              /\ loopContinues(answer)
              /\ Count("glfwPollEvents") < MaxPolls
              /\ calls' = calls \o iterationCalls
              /\ closeFlag' \in IF window = "WINDOW" THEN BOOLEAN ELSE {closeFlag}
              /\ pc' = "mainLoop"
              /\ UNCHANGED exitStatus
           \/ /\ answer = "abort"
              /\ calls' = Append(calls, "glfwWindowShouldClose")
              /\ pc' = "exited"
              /\ exitStatus' = "ABORTED"
              /\ UNCHANGED closeFlag
    /\ UNCHANGED <<env, glfwInitialized, window, instance, layerSupport,
                   createInfo, createStatus, cout, cerr, exception>>

(***************************************************************************)
(* cleanup (main.cpp 165-169).                                             *)
(***************************************************************************)
\* a mutant of cleanupCalls: the window is torn down before the instance
cleanupCalls_windowFirst ==
    <<"glfwDestroyWindow", "vkDestroyInstance", "glfwTerminate">>

\* a mutant of cleanupCalls: the instance is destroyed a second time
cleanupCalls_destroyTwice ==
    <<"vkDestroyInstance", "glfwDestroyWindow", "glfwTerminate",
      "vkDestroyInstance">>

\* a mutant of cleanupCalls: the windowing subsystem is terminated first
cleanupCalls_terminateFirst ==
    <<"glfwTerminate", "vkDestroyInstance", "glfwDestroyWindow">>

\* the calls cleanup makes, in order
cleanupCalls ==
    <<"vkDestroyInstance", "glfwDestroyWindow", "glfwTerminate">>

cleanup ==
    /\ pc = "cleanup"
    /\ calls' = calls \o cleanupCalls
    /\ glfwInitialized' = FALSE
    /\ pc' = "return"
    /\ UNCHANGED <<env, window, closeFlag, instance, layerSupport, createInfo,
                   createStatus, cout, cerr, exception, exitStatus>>

(***************************************************************************)
(* main (main.cpp 172-182): run() returned, or threw.  Nothing is released *)
(* in the handler, and app has no destructor.                              *)
(***************************************************************************)
mainReturn ==
    /\ pc = "return"
    /\ exitStatus' = "EXIT_SUCCESS"
    /\ pc' = "exited"
    /\ UNCHANGED <<env, glfwInitialized, window, closeFlag, instance,
                   layerSupport, createInfo, createStatus, calls, cout, cerr,
                   exception>>

\* a mutant of mainCatch: the handler prints and falls through to the
\* return of EXIT_SUCCESS
mainCatch_fallsThrough ==
    /\ pc = "catch"
    /\ cerr' = Append(cerr, exception)
    /\ exitStatus' = "EXIT_SUCCESS"
    /\ pc' = "exited"
    /\ UNCHANGED <<env, glfwInitialized, window, closeFlag, instance,
                   layerSupport, createInfo, createStatus, calls, cout,
                   exception>>

mainCatch ==
    /\ pc = "catch"
    /\ cerr' = Append(cerr, exception)
    /\ exitStatus' = "EXIT_FAILURE"
    /\ pc' = "exited"
    /\ UNCHANGED <<env, glfwInitialized, window, closeFlag, instance,
                   layerSupport, createInfo, createStatus, calls, cout,
                   exception>>

Next ==
    \/ initWindow
    \/ createInstance
    \/ mainLoop
    \/ cleanup
    \/ mainReturn
    \/ mainCatch

Spec == Init /\ [][Next]_vars

\* the program is one thread that keeps running until the process ends:
\* a step that can be taken is taken
FairSpec == Spec /\ WF_vars(Next)

(***************************************************************************)
(* What the claims speak of.                                               *)
(***************************************************************************)
\* the names of the layers and extensions the runtime reports
AvailableLayers == {installedLayers[j].layerName : j \in DOMAIN installedLayers}
AvailableExtensions ==
    {installedExtensions[j].extensionName : j \in DOMAIN installedExtensions}

\* createInstance got as far as the diagnostic
Negotiated == createInfo # <<>>

\* the list glfwGetRequiredInstanceExtensions handed to that createInstance:
\* the pointer the descriptor and hasExensions are both given
NeededList == IF Negotiated THEN createInfo[1].ppEnabledExtensionNames ELSE <<>>

\* the FOUND and NOT FOUND lines of the diagnostic, in order
VerdictLines ==
    SelectSeq(cout, LAMBDA l : l.text \in {"FOUND", "NOT FOUND"})
ReportedFound == {l.name : l \in {m \in Range(cout) : m.text = "FOUND"}}
ReportedNotFound == {l.name : l \in {m \in Range(cout) : m.text = "NOT FOUND"}}

\* every call f was made before every call g
AllBefore(f, g) == \A i \in At(f), j \in At(g) : i < j

(***************************************************************************)
(* C1.  After a run that completed every phase without error,              *)
(* vkDestroyInstance was called before glfwDestroyWindow, and that before  *)
(* glfwTerminate, however many loop iterations there were.                 *)
(***************************************************************************)
C1_TeardownOrder ==
    exitStatus = "EXIT_SUCCESS" =>
        /\ At("vkDestroyInstance") # {}
        /\ At("glfwDestroyWindow") # {}
        /\ At("glfwTerminate") # {}
        /\ AllBefore("vkDestroyInstance", "glfwDestroyWindow")
        /\ AllBefore("glfwDestroyWindow", "glfwTerminate")

\* a successful run of a real window that pumped events before closing
C1_Witness ==
    /\ exitStatus = "EXIT_SUCCESS"
    /\ window = "WINDOW"
    /\ Count("glfwPollEvents") >= 1

(***************************************************************************)
(* C2.  When window opening or instance bootstrap raises an error, what    *)
(* was acquired before is released before the process exits: the window    *)
(* is destroyed, the windowing subsystem terminated, and no instance       *)
(* destroy is issued.                                                      *)
(***************************************************************************)
C2_PartialTeardownOnError ==
    exitStatus = "EXIT_FAILURE" =>
        /\ window = "WINDOW" => Count("glfwDestroyWindow") = 1
        /\ ~glfwInitialized
        /\ Count("vkDestroyInstance") = 0

(***************************************************************************)
(* C3.  checkValidationLayerSupport returns true exactly when every        *)
(* required layer is among the layers the runtime reports.                 *)
(***************************************************************************)
C3_SupportIffSubset ==
    \A i \in DOMAIN layerSupport :
        layerSupport[i] <=> (Range(validationLayers) \subseteq AvailableLayers)

(***************************************************************************)
(* C4.  With validation enabled and a required layer missing from what the *)
(* runtime reports, createInstance fails with the "validation requested    *)
(* but unavailable" error and vkCreateInstance is never called.            *)
(***************************************************************************)
C4_MissingLayerStopsCreation ==
    (enableValidationLayers
     /\ ~(Range(validationLayers) \subseteq AvailableLayers)) =>
        /\ Count("vkCreateInstance") = 0
        /\ pc \in {"mainLoop", "cleanup", "return", "catch", "exited"} =>
               exception = "Validation layers requested, but not available!"

C6_FoundIffAvailable ==
    Negotiated =>
        /\ ReportedFound = Range(NeededList) \cap AvailableExtensions
        /\ ReportedNotFound = Range(NeededList) \ AvailableExtensions

(***************************************************************************)
(* C7.  The diagnostic gives each required extension one verdict, FOUND or *)
(* NOT FOUND, and never both: the verdict lines name the required          *)
(* extensions one by one, and the two sets of names are disjoint and       *)
(* together the required set.                                              *)
(***************************************************************************)
C7_VerdictsPartitionRequired ==
    Negotiated =>
        /\ [i \in DOMAIN VerdictLines |-> VerdictLines[i].name] = NeededList
        /\ ReportedFound \cup ReportedNotFound = Range(NeededList)
        /\ ReportedFound \cap ReportedNotFound = {}

\* a diagnostic with both verdicts in it
C7_Witness ==
    /\ Negotiated
    /\ ReportedFound # {}
    /\ ReportedNotFound # {}

(***************************************************************************)
(* C8.  On every path vkDestroyInstance is called at most once and         *)
(* glfwDestroyWindow at most once.                                         *)
(***************************************************************************)
C8_DestroyAtMostOnce ==
    /\ Count("vkDestroyInstance") <= 1
    /\ Count("glfwDestroyWindow") <= 1

\* a run that destroyed both handles
C8_Witness ==
    /\ pc = "exited"
    /\ instance = "INSTANCE"
    /\ window = "WINDOW"
    /\ Count("vkDestroyInstance") = 1
    /\ Count("glfwDestroyWindow") = 1

(***************************************************************************)
(* C9.  When glfwInit fails or glfwCreateWindow returns no handle, the     *)
(* lifecycle stops: no instance bootstrap and no loop with a missing       *)
(* window, and the process does not exit with success.                     *)
(***************************************************************************)
C9_NoWindowStopsStartup ==
    window = "NULL" =>
        /\ layerSupport = <<>>
        /\ Count("glfwGetRequiredInstanceExtensions") = 0
        /\ Count("vkCreateInstance") = 0
        /\ Count("glfwWindowShouldClose") = 0
        /\ Count("glfwPollEvents") = 0
        /\ exitStatus # "EXIT_SUCCESS"

(***************************************************************************)
(* C10.  vkCreateInstance is called at most once in a run; when it returns *)
(* a status other than success, createInstance throws, the loop is never   *)
(* entered and the process exits with failure.                             *)
(***************************************************************************)
C10_CreateOnceAndFatal ==
    /\ Count("vkCreateInstance") <= 1
    /\ createStatus \notin {"none", "VK_SUCCESS"} =>
           /\ exception = "Failed to create instance!"
           /\ pc \in {"catch", "exited"}
           /\ Count("glfwWindowShouldClose") = 0
           /\ Count("glfwPollEvents") = 0
           /\ pc = "exited" => exitStatus = "EXIT_FAILURE"

\* the runtime refused the descriptor and the process has ended
C10_Witness ==
    /\ createStatus \notin {"none", "VK_SUCCESS"}
    /\ Count("vkCreateInstance") = 1
    /\ pc = "exited"

(***************************************************************************)
(* The calls of the Instance Bootstrapper, by the state they belong to.    *)
(***************************************************************************)
ExtensionQueries ==
    At("glfwGetRequiredInstanceExtensions")
    \cup At("vkEnumerateInstanceExtensionProperties")
LayerVerification == At("vkEnumerateInstanceLayerProperties")
BootstrapperCalls ==
    ExtensionQueries \cup LayerVerification
    \cup At("vkCreateInstance") \cup At("vkDestroyInstance")

\* every position of P is before every position of Q
Precede(P, Q) == \A i \in P, j \in Q : i < j

(***************************************************************************)
(* C11.  The bootstrapper goes through Uninitialized, ExtensionsQueried,   *)
(* LayersVerified (validation enabled only), InstanceCreated,              *)
(* InstanceDestroyed in that order: the extension queries come before the  *)
(* layer verification, that before vkCreateInstance, no state is           *)
(* revisited, and nothing of the bootstrapper follows the destroy.         *)
(***************************************************************************)
C11_ExtensionsThenLayers ==
    /\ Precede(ExtensionQueries, LayerVerification)
    /\ Precede(LayerVerification, At("vkCreateInstance"))
    /\ Precede(At("vkCreateInstance"), At("vkDestroyInstance"))
    /\ \A i \in At("vkDestroyInstance") : \A j \in BootstrapperCalls : j <= i

(***************************************************************************)
(* C11, amended.  The order is Uninitialized, LayersVerified (validation   *)
(* enabled only), ExtensionsQueried, InstanceCreated, InstanceDestroyed:   *)
(* the layer verification comes before the extension queries, those        *)
(* before vkCreateInstance, that before vkDestroyInstance; each state is   *)
(* entered at most once (one required-extension query, one two-call        *)
(* enumeration of each kind, one create, one destroy), the layers are      *)
(* verified only when validation is enabled, and nothing of the            *)
(* bootstrapper follows the destroy.                                       *)
(***************************************************************************)
C11_LayersThenExtensions ==
    /\ Precede(LayerVerification, ExtensionQueries)
    /\ Precede(ExtensionQueries, At("vkCreateInstance"))
    /\ Precede(At("vkCreateInstance"), At("vkDestroyInstance"))
    /\ \A i \in At("vkDestroyInstance") : \A j \in BootstrapperCalls : j <= i
    /\ Count("vkEnumerateInstanceLayerProperties") \in {0, 2}
    /\ Count("glfwGetRequiredInstanceExtensions") <= 1
    /\ Count("vkEnumerateInstanceExtensionProperties") \in {0, 2}
    /\ Count("vkCreateInstance") <= 1
    /\ Count("vkDestroyInstance") <= 1
    /\ ~enableValidationLayers => LayerVerification = {}
    /\ (enableValidationLayers /\ pc # "initWindow" /\ pc # "initVulkan") =>
           LayerVerification # {}
    /\ At("vkCreateInstance") # {} => ExtensionQueries # {}
    /\ At("vkDestroyInstance") # {} => At("vkCreateInstance") # {}

\* a run with validation enabled that went through every state
C11_Witness ==
    /\ enableValidationLayers
    /\ LayerVerification # {}
    /\ ExtensionQueries # {}
    /\ Count("vkCreateInstance") = 1
    /\ Count("vkDestroyInstance") = 1

(***************************************************************************)
(* C12.  The exit status is success exactly when the four phases (open     *)
(* window, bootstrap instance, run-loop, teardown) all ran and none raised *)
(* an error; every error raised gives a non-zero exit status and exactly   *)
(* one message on std::cerr.                                               *)
(***************************************************************************)
AllPhasesRan ==
    /\ Count("glfwCreateWindow") = 1
    /\ createStatus = "VK_SUCCESS"
    /\ Count("glfwWindowShouldClose") >= 1
    /\ Count("vkDestroyInstance") = 1
    /\ Count("glfwTerminate") = 1

Polls == Count("glfwPollEvents")

C13_LoopShape ==
    /\ \A i \in At("glfwPollEvents") :
           i > 1 /\ calls[i - 1] = "glfwWindowShouldClose"
    /\ \A i \in At("glfwWindowShouldClose") :
           i < Len(calls) =>
               /\ calls[i + 1] \in {"glfwPollEvents", "vkDestroyInstance"}
               /\ calls[i + 1] = "vkDestroyInstance" =>
                      /\ \A j \in At("glfwPollEvents") : j < i
                      /\ \A j \in At("glfwWindowShouldClose") : j <= i
    /\ pc = "cleanup" => calls[Len(calls)] = "glfwWindowShouldClose"
    /\ (window = "WINDOW" /\ At("vkDestroyInstance") # {}) =>
           /\ closeFlag
           /\ Precede(At("vkDestroyInstance"), At("glfwDestroyWindow"))

C13_LoopStep ==
    /\ (~closeFlag /\ closeFlag') => Polls' = Polls + 1
    /\ closeFlag => (closeFlag' /\ Polls' = Polls)
    /\ (closeFlag /\ pc = "mainLoop") => pc' = "cleanup"

C13_CloseEndsLoop == [](C13_LoopShape) /\ [][C13_LoopStep]_vars

\* the close request arrived during the first pump and the run ended
C13_Witness ==
    /\ window = "WINDOW"
    /\ closeFlag
    /\ Polls = 1
    /\ exitStatus = "EXIT_SUCCESS"
    /\ Count("glfwWindowShouldClose") = 2

(***************************************************************************)
(* C14.  Whenever vkCreateInstance is called, the descriptor's layer list  *)
(* is the whole of validationLayers when validation is enabled and empty   *)
(* when it is not, never a part of it; and with validation disabled        *)
(* checkValidationLayerSupport is not called at all.                       *)
(***************************************************************************)
C14_AllLayersOrNone ==
    /\ \A i \in DOMAIN createInfo :
           IF enableValidationLayers
           THEN /\ createInfo[i].enabledLayerCount = Len(validationLayers)
                /\ createInfo[i].ppEnabledLayerNames = validationLayers
           ELSE /\ createInfo[i].enabledLayerCount = 0
                /\ createInfo[i].ppEnabledLayerNames = <<>>
    /\ Len(createInfo) = Count("vkCreateInstance")
    /\ ~enableValidationLayers =>
           /\ layerSupport = <<>>
           /\ Count("vkEnumerateInstanceLayerProperties") = 0

\* vkCreateInstance was called with validation enabled
C14_Witness ==
    /\ enableValidationLayers
    /\ Count("vkCreateInstance") = 1
    /\ createInfo[1].enabledLayerCount = 1

(***************************************************************************)
(* C15.  Once the instance is created and the window reports a close       *)
(* request (after some finite number of pumps), the run leaves the loop,   *)
(* makes the three teardown calls and ends with success; as long as no     *)
(* close request is reported the loop is not left and no teardown call is  *)
(* made.                                                                   *)
(***************************************************************************)
TeardownDone ==
    /\ Count("vkDestroyInstance") = 1
    /\ Count("glfwDestroyWindow") = 1
    /\ Count("glfwTerminate") = 1

NoTeardown ==
    /\ Count("vkDestroyInstance") = 0
    /\ Count("glfwDestroyWindow") = 0
    /\ Count("glfwTerminate") = 0

C15_CloseLeadsToSuccess ==
    /\ (pc = "mainLoop" /\ window = "WINDOW" /\ closeFlag)
           ~> (pc = "exited" /\ exitStatus = "EXIT_SUCCESS" /\ TeardownDone)
    /\ []((window = "WINDOW" /\ ~closeFlag) =>
              /\ NoTeardown
              /\ pc \notin {"cleanup", "return"}
              /\ exitStatus # "EXIT_SUCCESS")

\* a run that pumped, saw the close request and ended
C15_Witness ==
    /\ window = "WINDOW"
    /\ closeFlag
    /\ Polls >= 1
    /\ pc = "exited"
    /\ exitStatus = "EXIT_SUCCESS"
    /\ TeardownDone

(***************************************************************************)
(* C16.  vkDestroyInstance is only called on a handle that a successful    *)
(* vkCreateInstance of the same run produced: on every path where          *)
(* createInstance raised an error it is never called.                      *)
(***************************************************************************)
C16_DestroyOnlyCreated ==
    /\ At("vkDestroyInstance") # {} =>
           /\ createStatus = "VK_SUCCESS"
           /\ instance = "INSTANCE"
           /\ At("vkCreateInstance") # {}
           /\ Precede(At("vkCreateInstance"), At("vkDestroyInstance"))
    /\ exception # "none" => At("vkDestroyInstance") = {}
    /\ createStatus \notin {"none", "VK_SUCCESS"} => instance = "indeterminate"

\* the instance a successful create produced was destroyed
C16_Witness ==
    /\ Count("vkDestroyInstance") = 1
    /\ createStatus = "VK_SUCCESS"
    /\ instance = "INSTANCE"

(***************************************************************************)
(* C17.  Every call into the windowing collaborator comes after glfwInit   *)
(* and before glfwTerminate; glfwTerminate is called at most once and is   *)
(* the last collaborator call of the run.                                  *)
(***************************************************************************)
WindowingCalls ==
    At("glfwWindowHint") \cup At("glfwCreateWindow")
    \cup At("glfwGetRequiredInstanceExtensions")
    \cup At("glfwWindowShouldClose") \cup At("glfwPollEvents")
    \cup At("glfwDestroyWindow")

C17_InitFirstTerminateLast ==
    /\ Count("glfwInit") <= 1
    /\ Count("glfwTerminate") <= 1
    /\ calls # <<>> => calls[1] = "glfwInit"
    /\ \A i \in WindowingCalls :
           /\ \E j \in At("glfwInit") : j < i
           /\ \A k \in At("glfwTerminate") : i < k
    /\ \A k \in At("glfwTerminate") : k = Len(calls)

\* a run that terminated the windowing subsystem after using all of it
C17_Witness ==
    /\ Count("glfwTerminate") = 1
    /\ Count("glfwPollEvents") >= 1
    /\ Count("glfwDestroyWindow") = 1
    /\ pc = "exited"

(***************************************************************************)
(* C18.  The run-loop is entered only with the instance created and the    *)
(* window open, both handles stay live while it runs, and no               *)
(* glfwWindowShouldClose or glfwPollEvents call comes before the instance  *)
(* was created.                                                            *)
(***************************************************************************)
C18_LoopHasLiveHandles ==
    /\ pc = "mainLoop" =>
           /\ createStatus = "VK_SUCCESS"
           /\ instance = "INSTANCE"
           /\ window = "WINDOW"
           /\ NoTeardown
    /\ (At("glfwWindowShouldClose") \cup At("glfwPollEvents")) # {} =>
           /\ createStatus = "VK_SUCCESS"
           /\ window = "WINDOW"
           /\ Precede(At("vkCreateInstance"),
                      At("glfwWindowShouldClose") \cup At("glfwPollEvents"))

====
